---- MODULE Spec2Model ----
(***************************************************************************)
(* Model of scripts/MCMC/TMC1_four_component.py: noise estimation          *)
(* (calc_noise_std), line-window extraction (read_file), the posterior     *)
(* evaluation (is_within_bounds, lnprior, lnlike, lnprob) and the fit      *)
(* driver (init_setup, fit_multi_gaussian).                                *)
(*                                                                         *)
(* Numbers.  Intensities and frequencies are integers; a mean is kept as   *)
(* the pair (sum, count) and a standard deviation as the integer           *)
(* V = n*Q - S^2 (std = sqrt(V)/n), so that every comparison the code      *)
(* makes is decided exactly.  NaN is kept explicitly (count 0).            *)
(***************************************************************************)
EXTENDS Integers, Sequences, FiniteSets, TLC

VARIABLES
  \* ---- calc_noise_std (one call, stepped cycle by cycle)
  ns_pc,          \* "start", "clip1", "clip2", "clip3" (cycles done), "off"
  dummy_ints,     \* the window's intensities (np.copy(intensity))
  noise,          \* noise[i] = TRUE iff channel i of `noise` is NaN
  noise_stat,     \* (noise_mean, noise_std) as [n, S, Q]; n = 0 is NaN
  chans           \* the channels np.where selected in the last cycle (0-based)

noiseVars == <<ns_pc, dummy_ints, noise, noise_stat, chans>>

VARIABLES
  \* ---- read_file (one call, stepped line by line)
  rd_pc,              \* "loop", "done", "off"
  rd_i,               \* the loop's i (0-based, as enumerate gives it)
  restfreqs, int_sim, \* the catalog lines handed in
  block_interlopers,
  intensity,          \* data[1]; data[0] is the fixed grid freqs
  relevant_freqs, relevant_intensity, relevant_yerrs,
  covered_trans

readVars == <<rd_pc, rd_i, restfreqs, int_sim, block_interlopers, intensity,
              relevant_freqs, relevant_intensity, relevant_yerrs, covered_trans>>

VARIABLES
  \* ---- the arguments the sampler hands to every lnprob call
  datagrid,           \* the observed grid, channel by channel
  mol_cat,            \* the catalog
  prior_stds, prior_means

argVars == <<datagrid, mol_cat, prior_stds, prior_means>>

VARIABLES
  \* ---- lnprob (one call, stepped)
  lp_pc,              \* "call", "prior", "returned", "off"
  theta,              \* the 14 parameters
  lp,                 \* what lnprior returned, by class
  lp_terms,           \* what lnprior returned, by the terms of its sum
  lnprob_ret,         \* what lnprob returned
  lnlike_calls        \* how many times lnlike was entered

postVars == <<lp_pc, theta, lp, lp_terms, lnprob_ret, lnlike_calls>>

VARIABLES
  \* ---- the files
  cat_exists,         \* <cat_folder>/<mol_name>.cat
  data_exists,        \* data_path, the raw spectrum
  prior_file,         \* prior_path: [exists, shape]
  datafile_exists,    \* all_<mol_name>_lines_GOTHAM_freq_space.npy
  chain_file,         \* <fit_folder>/<mol_name>/chain.npy: [state, iters]
  \* ---- one launch of init_setup followed by fit_multi_gaussian
  fit_pc,
  launch,             \* which launch of the script this is
  template_run, restart, nruns,
  sampler,            \* "none" or "made"
  chain,              \* sampler.chain, one entry per iteration
  pos,                \* where the next step starts: "initial" or a chain entry
  it,                 \* the sampling loop's i: iterations completed
  evals,              \* per walker: "idle", "pending" or "done"
  \* ---- history: every entry written to chain.npy during this fit's life
  persisted_log

fileVars == <<cat_exists, data_exists, prior_file, datafile_exists, chain_file>>
fitVars == <<fit_pc, launch, template_run, restart, nruns, sampler, chain, pos, it,
             evals, persisted_log>>

VARIABLES
  \* ---- the walker ensemble `pos` of fit_multi_gaussian, in more detail
  pos_shape,          \* np.shape(pos): <<number of vectors, parameters of each>>
  pos_draws,          \* per walker, the sign of its np.random.randn draw
  walker_msg          \* what the walker-count check printed: "none", "warning", "success"

ensVars == <<pos_shape, pos_draws, walker_msg>>

VARIABLES
  \* ---- the forward model of one lnlike call: line selection, make_model
  fm_pc,              \* "select", "model", "done", "raised", "off"
  grid_file,          \* the datagrid as init_setup assembled and saved it
  taus,               \* taus1..taus4 of predict_intensities, by catalog line
  sel_taus,           \* taus1..taus4 after [line_ids]
  curr_model          \* make_model's result, channel by channel: "zero", "pos"

fwdVars == <<fm_pc, grid_file, taus, sel_taus, curr_model>>

vars == <<noiseVars, readVars, argVars, postVars, fileVars, fitVars, ensVars, fwdVars>>

\* what each part of the program leaves alone
notNoise == <<readVars, argVars, postVars, fileVars, fitVars, ensVars, fwdVars>>
notRead == <<noiseVars, argVars, postVars, fileVars, fitVars, ensVars, fwdVars>>
notPost == <<noiseVars, readVars, fileVars, fitVars, ensVars, fwdVars>>
notFit == <<noiseVars, readVars, postVars, fwdVars>>
notFwd == <<noiseVars, readVars, argVars, postVars, fileVars, fitVars, ensVars>>

----------------------------------------------------------------------------
(* Bounds of the model                                                     *)
MaxWin == 24            \* longest window handed to calc_noise_std
SpikeHeight == 50       \* height of a synthetic spike (above or below)

NChan == 24             \* channels of the input spectrum
NLines == 2             \* catalog lines handed to read_file

NWalkers == 2           \* walkers of the ensemble (nwalkers, scaled down)
MaxRuns == 2            \* largest nruns
MaxLaunch == 2          \* launches of the script against one fit folder
MaxGrid == 2            \* channels of the observed grid in an lnprob call
NCat == 2               \* lines of the catalog that predict_intensities simulates

Levels == {0, 1}                          \* flat baseline of a window
Spikes == {SpikeHeight, 0 - SpikeHeight}
\* 0-based channels where the spike is put; NChan: no spike
SpikeAt == {3, 6, 10, 15, NChan}

----------------------------------------------------------------------------
(* Arithmetic helpers                                                      *)
RECURSIVE SumSeq(_)
SumSeq(s) == IF s = <<>> THEN 0 ELSE Head(s) + SumSeq(Tail(s))

Abs(x) == IF x < 0 THEN 0 - x ELSE x

Min(a, b) == IF a < b THEN a ELSE b
Max(a, b) == IF a > b THEN a ELSE b

\* the largest element of a non-empty set of integers (np.max)
SetMax(S) == CHOOSE x \in S : \A y \in S : y <= x

----------------------------------------------------------------------------
(* calc_noise_std                                                          *)

\* threshold=3.5 as the fraction ThresholdNum/ThresholdDen
ThresholdNum == 7
ThresholdDen == 2
\* noise[chan-10:chan+10]
ClipHalfWidth == 10

\* np.nanmean / np.nanstd over the channels of `vals` that `nan` does not mask:
\* count n, sum S, sum of squares Q.  mean = S/n, std = sqrt(n*Q - S*S)/n,
\* both NaN when n = 0.
NanStat(vals, nan) ==
  LET keep == {i \in 1..Len(vals) : ~nan[i]}
  IN  [n |-> Cardinality(keep),
       S |-> SumSeq([i \in 1..Len(vals) |-> IF nan[i] THEN 0 ELSE vals[i]]),
       Q |-> SumSeq([i \in 1..Len(vals) |-> IF nan[i] THEN 0 ELSE vals[i] * vals[i]])]

IsNaNStat(st) == st.n = 0

\* V with std = sqrt(V)/n
StdV(st) == st.n * st.Q - st.S * st.S

\* dummy_ints[c] - mean > std*threshold   (False when mean/std are NaN)
AboveClip(x, st) ==
  /\ ~IsNaNStat(st)
  /\ st.n * x - st.S > 0
  /\ ThresholdDen * ThresholdDen * (st.n * x - st.S) * (st.n * x - st.S)
       > ThresholdNum * ThresholdNum * StdV(st)

\* dummy_ints[c] - mean < -std*threshold
BelowClip(x, st) ==
  /\ ~IsNaNStat(st)
  /\ st.n * x - st.S < 0
  /\ ThresholdDen * ThresholdDen * (st.n * x - st.S) * (st.n * x - st.S)
       > ThresholdNum * ThresholdNum * StdV(st)

\* np.where(...)[0] of both loops of one cycle: 0-based channel numbers
WhereOutliers(ints, st) ==
  {c \in 0..(Len(ints) - 1) : BelowClip(ints[c + 1], st) \/ AboveClip(ints[c + 1], st)}

\* Python's a[start:stop] on a length-n array, as a set of 0-based indices:
\* a negative bound counts from the end, then both are clamped to 0..n.
PySlice(n, start, stop) ==
  LET lo == IF start < 0 THEN Max(start + n, 0) ELSE Min(start, n)
      hi == IF stop < 0 THEN Max(stop + n, 0) ELSE Min(stop, n)
  IN  {j \in 0..(n - 1) : lo <= j /\ j < hi}

\* noise[chan-10:chan+10] = np.nan for every selected chan
MaskAround(nan, cs) ==
  [i \in 1..Len(nan) |->
     nan[i] \/ \E c \in cs : (i - 1) \in PySlice(Len(nan), c - ClipHalfWidth, c + ClipHalfWidth)]

\* (The one-element sets below only bind a value once it is computed.)
TheOne(S) == CHOOSE r \in S : TRUE

\* one clip-and-recompute cycle: the new mask
ClipCycle(ints, nan, st) ==
  TheOne({MaskAround(nan, cs) : cs \in {WhereOutliers(ints, st)}})

NoNaN(ints) == [i \in 1..Len(ints) |-> FALSE]

\* the mask after one more cycle, its statistics taken from the mask before
NextMask(ints, nan) ==
  TheOne({ClipCycle(ints, nan, st) : st \in {NanStat(ints, nan)}})

\* the whole function: the final (noise_mean, noise_std)
calc_noise_std(ints) ==
  TheOne({NanStat(ints, m3) :
            m3 \in {NextMask(ints, m2) :
                      m2 \in {NextMask(ints, m1) :
                                m1 \in {NextMask(ints, NoNaN(ints))}}}})

\* a window: flat at `level`, with a spike of height h at 0-based channel p
\* (p = n: no spike)
Window(n, level, p, h) == [i \in 1..n |-> IF i - 1 = p THEN h ELSE level]

NoiseOff ==
  /\ ns_pc = "off" /\ dummy_ints = <<>> /\ noise = <<>>
  /\ noise_stat = [n |-> 0, S |-> 0, Q |-> 0] /\ chans = {}

----------------------------------------------------------------------------
(* read_file                                                               *)

\* thresh = 0.05, as 1/ThreshDen
ThreshDen == 20
\* (rf - freqs)/rf*300000
CKmS == 300000
\* the velocity range (-.3+5.6, .3+6.) in tenths of a km/s
VelLo10 == 53
VelHi10 == 63
\* shift=0.0 (init_setup passes none)
shift == 0
\* np.max(intensity[locs]) > 6*noise_std
InterloperFactor == 6
\* (intensity[locs]*0.1)**2, as 1/CalErrDenSq of intensity**2
CalErrDenSq == 100

\* the spectrum's frequency axis: a regular grid of positive frequencies, in
\* units in which a line near 6e6 has about 19 channels in its window
FreqBase == 6000000 - 126
freqs == [k \in 1..NChan |-> FreqBase + k]

\* rest frequencies on offer: a full window, one overlapping it from above,
\* a short one inside the first, and one with no channel in the spectrum
RestFreqChoices == {FreqBase + 126, FreqBase + 131, FreqBase + 112, FreqBase + 160}
\* simulated intensities on offer: the peak, exactly 5% of it, and less
SimChoices == {1, 5, 100}

\* np.where((vel<(.3+6.)) & (vel>(-.3+5.6))) for rest frequency rf > 0,
\* vel = (rf - freqs)/rf*300000 + shift: 1-based channel numbers
Locs(rf) ==
  {k \in 1..NChan :
     /\ 10 * CKmS * (rf - freqs[k]) + 10 * shift * rf < VelHi10 * rf
     /\ 10 * CKmS * (rf - freqs[k]) + 10 * shift * rf > VelLo10 * rf}

\* a[locs] for an index set: the selected elements in increasing index order
RECURSIVE Take(_, _)
Take(a, locs) ==
  IF locs = {} THEN <<>>
  ELSE LET k == CHOOSE x \in locs : \A y \in locs : x <= y
       IN  <<a[k]>> \o Take(a, locs \ {k})

SeqMax(s) == SetMax({s[i] : i \in 1..Len(s)})

\* a test that also lets through a line at exactly the threshold
Significant_NonStrict(sim, i) == ThreshDen * sim[i + 1] >= SeqMax(sim)

\* int_sim[i] > thresh*np.max(int_sim)   (i 0-based)
Significant(sim, i) == ThreshDen * sim[i + 1] > SeqMax(sim)

\* peak > 6*noise_std  (False when noise_std is NaN)
PeakAbove(peak, st) ==
  /\ ~IsNaNStat(st)
  /\ peak > 0
  /\ (st.n * peak) * (st.n * peak) > InterloperFactor * InterloperFactor * StdV(st)

\* a stricter test that ignores the caller's flag
RejectWindow_NoFlag(block, peak, st) == PeakAbove(peak, st)

\* block_interlopers and (np.max(intensity[locs]) > 6*noise_std)
RejectWindow(block, peak, st) == block /\ PeakAbove(peak, st)

\* an uncertainty, kept as its square num/den (den > 0), or NaN
YerrZero == [nan |-> FALSE, num |-> 0, den |-> 1]

\* np.sqrt(noise_std**2 + (intensity*0.1)**2)
Yerr(st, x) ==
  IF IsNaNStat(st) THEN [nan |-> TRUE, num |-> 0, den |-> 1]
  ELSE [nan |-> FALSE,
        num |-> CalErrDenSq * StdV(st) + x * x * st.n * st.n,
        den |-> CalErrDenSq * st.n * st.n]

ReadInit ==
  /\ rd_pc = "loop" /\ rd_i = 0
  /\ restfreqs \in [1..NLines -> RestFreqChoices]
  /\ int_sim \in [1..NLines -> SimChoices]
  /\ block_interlopers \in BOOLEAN
  /\ \E level \in Levels, p \in SpikeAt, h \in Spikes :
       intensity = Window(NChan, level, p, h)
  /\ relevant_freqs = [k \in 1..NChan |-> 0]          \* np.zeros
  /\ relevant_intensity = [k \in 1..NChan |-> 0]
  /\ relevant_yerrs = [k \in 1..NChan |-> YerrZero]
  /\ covered_trans = <<>>

ReadOff ==
  /\ rd_pc = "off" /\ rd_i = 0 /\ restfreqs = <<>> /\ int_sim = <<>>
  /\ block_interlopers = FALSE /\ intensity = <<>>
  /\ relevant_freqs = <<>> /\ relevant_intensity = <<>> /\ relevant_yerrs = <<>>
  /\ covered_trans = <<>>

\* one pass of `for i, rf in enumerate(restfreqs)`
LineStep ==
  /\ rd_pc = "loop" /\ rd_i < Len(restfreqs)
  /\ \E locs \in {Locs(restfreqs[rd_i + 1])} :
     \E win \in {Take(intensity, locs)} :
     \E st \in {calc_noise_std(win)} :
       IF /\ Significant(int_sim, rd_i)
          /\ locs # {}
          /\ ~RejectWindow(block_interlopers, SeqMax(win), st)
       THEN /\ covered_trans' = Append(covered_trans, rd_i)
            /\ relevant_freqs' =
                 [k \in 1..NChan |-> IF k \in locs THEN freqs[k] ELSE relevant_freqs[k]]
            /\ relevant_intensity' =
                 [k \in 1..NChan |-> IF k \in locs THEN intensity[k] ELSE relevant_intensity[k]]
            /\ relevant_yerrs' =
                 [k \in 1..NChan |-> IF k \in locs THEN Yerr(st, intensity[k]) ELSE relevant_yerrs[k]]
       ELSE UNCHANGED <<covered_trans, relevant_freqs, relevant_intensity, relevant_yerrs>>
  /\ rd_i' = rd_i + 1
  /\ UNCHANGED <<rd_pc, restfreqs, int_sim, block_interlopers, intensity>>
  /\ UNCHANGED notRead

\* mask = relevant_freqs > 0 and the three filtered arrays; return
FilterReturn ==
  /\ rd_pc = "loop" /\ rd_i = Len(restfreqs)
  /\ LET mask == {k \in 1..NChan : relevant_freqs[k] > 0}
     IN  /\ relevant_freqs' = Take(relevant_freqs, mask)
         /\ relevant_intensity' = Take(relevant_intensity, mask)
         /\ relevant_yerrs' = Take(relevant_yerrs, mask)
  /\ rd_pc' = "done"
  /\ UNCHANGED <<rd_i, restfreqs, int_sim, block_interlopers, intensity, covered_trans>>
  /\ UNCHANGED notRead

NoiseInit ==
  /\ ns_pc = "start"
  /\ \E n \in 1..MaxWin, level \in Levels, p \in 0..MaxWin, h \in Spikes :
       /\ p <= n
       /\ dummy_ints = Window(n, level, p, h)
  /\ noise = NoNaN(dummy_ints)
  /\ noise_stat = NanStat(dummy_ints, noise)        \* dummy_mean, dummy_std
  /\ chans = {}

Clip(from, to) ==
  /\ ns_pc = from
  /\ chans' = WhereOutliers(dummy_ints, noise_stat)
  /\ noise' = ClipCycle(dummy_ints, noise, noise_stat)
  /\ noise_stat' = NanStat(dummy_ints, noise')
  /\ ns_pc' = to
  /\ UNCHANGED dummy_ints
  /\ UNCHANGED notNoise

Clip1 == Clip("start", "clip1")
Clip2 == Clip("clip1", "clip2")
Clip3 == Clip("clip2", "clip3")

----------------------------------------------------------------------------
(* Floating point, by class: what decides whether a result is finite.      *)
(* "fin" is any finite value, "pinf"/"ninf" the infinities, "nan" NaN.     *)
FAdd(a, b) ==
  IF a = "nan" \/ b = "nan" THEN "nan"
  ELSE IF a = "fin" THEN b
  ELSE IF b = "fin" THEN a
  ELSE IF a = b THEN a
  ELSE "nan"                                   \* inf + -inf

FNeg(a) == IF a = "pinf" THEN "ninf" ELSE IF a = "ninf" THEN "pinf" ELSE a

FSub(a, b) == FAdd(a, FNeg(b))

\* np.log of a value known by sign: "pos", "zero", "neg", "pinf", "nan"
FLog(sgn) ==
  IF sgn = "pos" THEN "fin"
  ELSE IF sgn = "pinf" THEN "pinf"
  ELSE IF sgn = "zero" THEN "ninf"
  ELSE "nan"

\* sum of a sequence of classes, from 0.
RECURSIVE FSum(_)
FSum(s) == IF s = <<>> THEN "fin" ELSE FAdd(Head(s), FSum(Tail(s)))

----------------------------------------------------------------------------
(* theta and the priors, in fixed point: source sizes in 0.1 arcsec,       *)
(* column densities in 1e9 cm-2, Tex in 0.1 K, velocities and dV in        *)
(* 1e-4 km/s.                                                              *)
ndim == 14
SizeIdx == 1..4
NcolIdx == 5..8
TexIdx == 9
VlsrIdx == 10..13
dVIdx == 14

\* 200 arcsec, 10**16. cm-2, 0.05 and 0.3 km/s, dV < 0.3, 2.7 K
SizeMax == 2000
NcolMax == 10000000
VlsrGapMin == 500
VlsrGapMax == 3000
dVMax == 3000
TexMin == 27

\* the same bounds, each one inclusive
is_within_bounds_NonStrict(th) ==
  /\ \A i \in SizeIdx : 0 <= th[i] /\ th[i] <= SizeMax
  /\ \A i \in NcolIdx : 0 <= th[i] /\ th[i] <= NcolMax
  /\ th[10] <= th[11] - VlsrGapMin /\ th[11] <= th[12] - VlsrGapMin /\ th[12] <= th[13] - VlsrGapMin
  /\ th[11] <= th[10] + VlsrGapMax /\ th[12] <= th[11] + VlsrGapMax /\ th[13] <= th[12] + VlsrGapMax
  /\ th[dVIdx] <= dVMax /\ TexMin <= th[TexIdx]

is_within_bounds(th) ==
  /\ \A i \in SizeIdx : 0 < th[i] /\ th[i] < SizeMax
  /\ \A i \in NcolIdx : 0 < th[i] /\ th[i] < NcolMax
  /\ th[10] < th[11] - VlsrGapMin /\ th[11] < th[12] - VlsrGapMin /\ th[12] < th[13] - VlsrGapMin
  /\ th[11] < th[10] + VlsrGapMax /\ th[12] < th[11] + VlsrGapMax /\ th[13] < th[12] + VlsrGapMax
  /\ th[dVIdx] < dVMax /\ TexMin < th[TexIdx]

\* the hardcoded HC9N values: initial (= prior_means) and prior_stds
TemplateInitial ==
  <<370, 250, 560, 220, 2470, 11190, 2200, 5640, 67, 56240, 57900, 59100, 60330, 1170>>
TemplateStds ==
  <<25, 20, 65, 20, 300, 1750, 265, 1185, 1, 15, 10, 35, 20, 20>>

\* np.log(1.0/(np.sqrt(2*np.pi)*s)) - 0.5*(x-m)**2/s**2, s known by its sign
\* and x-m by being zero or not
PriorTerm(x, m, s) ==
  LET recip == IF s > 0 THEN "pos" ELSE IF s < 0 THEN "neg" ELSE "pinf"   \* 1.0/(c*s)
      quad  == IF s # 0 THEN "fin" ELSE IF x = m THEN "nan" ELSE "pinf"  \* (x-m)**2/s**2
  IN  FSub(FLog(recip), quad)

\* s9..s12 = m13*0.8 and s13 = m13*0.3, in tenths of the velocity unit
VlsrStdTenths == 8
dVStdTenths == 3

\* the terms with every deviation taken from the caller's prior_stds
PriorArgs_SuppliedStds(th, stds, means) ==
  [i \in 1..10 |->
     IF i <= 4 THEN [x |-> th[i], m |-> means[i], s10 |-> 10 * stds[i]]
     ELSE [x |-> th[i + 4], m |-> means[i + 4], s10 |-> 10 * stds[i + 4]]]

\* what p0..p3, p8..p13 are computed from: the parameter, its prior mean and
\* the deviation used (s10: ten times it), s9..s13 being overridden
PriorArgs(th, stds, means) ==
  [i \in 1..10 |->
     IF i <= 4 THEN [x |-> th[i], m |-> means[i], s10 |-> 10 * stds[i]]
     ELSE IF i = 5 THEN [x |-> th[TexIdx], m |-> means[TexIdx], s10 |-> 10 * stds[TexIdx]]
     ELSE IF i <= 9 THEN [x |-> th[i + 4], m |-> means[i + 4],
                          s10 |-> means[dVIdx] * VlsrStdTenths]
     ELSE [x |-> th[dVIdx], m |-> means[dVIdx], s10 |-> means[dVIdx] * dVStdTenths]]

\* lnprior's value, as the terms p0 + p1 + p2 + p3 + p8 + ... + p13 it sums
\* (each a fixed function of x, m and s), or -inf
lnprior_terms(th, stds, means) ==
  IF ~is_within_bounds(th) THEN "ninf" ELSE PriorArgs(th, stds, means)

\* lnprior's value by class
lnprior(th, stds, means) ==
  IF ~is_within_bounds(th) THEN "ninf"
  ELSE TheOne({FSum([i \in 1..10 |-> PriorTerm(a[i].x, a[i].m, a[i].s10)]) :
                 a \in {PriorArgs(th, stds, means)}})

\* the relaxed deviations stored into the caller's array
StdsAfterLnprior_InPlace(stds, means) ==
  [i \in 1..Len(stds) |->
     IF i \in VlsrIdx THEN means[dVIdx] * VlsrStdTenths
     ELSE IF i = dVIdx THEN means[dVIdx] * dVStdTenths
     ELSE stds[i]]

\* lnprior rebinds its locals s9..s13 only: the caller's array is as it was
StdsAfterLnprior(stds, means) == stds

\* one channel of the observed grid: its uncertainty by sign ("pos", "zero"
\* or "nan") and whether the model meets the observation exactly there
GridChannels == [yerr : {"pos", "zero", "nan"}, exact : BOOLEAN]

\* (datagrid[1] - curr_model)**2*inv_sigma2 - np.log(inv_sigma2) at a channel,
\* inv_sigma2 = 1.0/(yerrs**2)
LikeTerm(ch) ==
  LET inv  == IF ch.yerr = "pos" THEN "pos" ELSE IF ch.yerr = "zero" THEN "pinf" ELSE "nan"
      prod == IF inv = "nan" THEN "nan"
              ELSE IF inv = "pos" THEN "fin"
              ELSE IF ch.exact THEN "nan" ELSE "pinf"          \* 0*inf, x*inf
  IN  FSub(prod, FLog(inv))

\* -0.5*np.sum(...)
lnlike(th, grid) == FNeg(FSum([c \in 1..Len(grid) |-> LikeTerm(grid[c])]))

\* lnlike and make_model read the grid and allocate their own arrays
GridAfterLnlike(grid) == grid

\* predict_intensities hands the catalog to MolSim, which only reads it
CatAfterPredict(cat) == cat

\* np.isfinite
isfinite_NotNaN(c) == c # "nan"
isfinite(c) == c = "fin"

\* parameter vectors on offer: the template vector with one entry replaced
ThetaAlt(i) ==
  IF i \in SizeIdx THEN {0, 1, SizeMax - 1, SizeMax}
  ELSE IF i \in NcolIdx THEN {0, 1, NcolMax}
  ELSE IF i = TexIdx THEN {TexMin, TexMin + 1}
  ELSE IF i \in VlsrIdx THEN {TemplateInitial[i] - 1400, TemplateInitial[i] - 700,
                              TemplateInitial[i] + 700, TemplateInitial[i] + 1400} \cup
                             \* on and just inside the allowed gap to the
                             \* component before
                             (IF i = 10 THEN {}
                              ELSE {TemplateInitial[i - 1] + VlsrGapMin,
                                    TemplateInitial[i - 1] + VlsrGapMin + 1,
                                    TemplateInitial[i - 1] + VlsrGapMax - 1,
                                    TemplateInitial[i - 1] + VlsrGapMax})
  ELSE {0 - 1170, 0, dVMax - 1, dVMax}
ThetaChoices ==
  {TemplateInitial} \cup
  UNION {{[TemplateInitial EXCEPT ![i] = v] : v \in ThetaAlt(i)} : i \in 1..ndim}

ZeroStds == [i \in 1..ndim |-> 0]

\* np.percentile(a, q) of sorted samples, linear interpolation, times 100
Percentile100(vals, q) ==
  LET at == q * (Len(vals) - 1)
      lo  == at \div 100
      fr  == at % 100
  IN  100 * vals[lo + 1] + (IF fr = 0 THEN 0 ELSE fr * (vals[lo + 2] - vals[lo + 1]))

\* one parameter's samples along the iteration axis of the prior chain, as
\* sorted offsets from the template value, the same for every walker: a
\* chain of one iteration, of two, and a skewed one of three
PriorSamples(n) == IF n = 1 THEN <<0>> ELSE IF n = 2 THEN <<0 - 2, 2>> ELSE <<0, 0, 50>>
PriorIters == {1, 2, 3}

\* prior_means = mean over walkers of the 50th percentile
DerivedMeans(o) ==
  [i \in 1..ndim |-> TemplateInitial[i] + (Percentile100(o, 50) \div 100)]
\* prior_stds = np.abs((percentile_16 + percentile_84 - 2 * prior_means) / 2.)
DerivedStds(o) ==
  [i \in 1..ndim |->
     Abs(Percentile100(o, 16) + Percentile100(o, 84) - 2 * Percentile100(o, 50)) \div 200]

Grids == UNION {[1..n -> GridChannels] : n \in 0..MaxGrid}

ArgsInit ==
  /\ datagrid \in Grids
  /\ mol_cat = "catalog"
  /\ \/ prior_means = TemplateInitial /\ prior_stds = TemplateStds
     \/ \E n \in PriorIters :
          /\ prior_means = DerivedMeans(PriorSamples(n))
          /\ prior_stds = DerivedStds(PriorSamples(n))

ArgsOff ==
  /\ datagrid = <<>> /\ mol_cat = "none" /\ prior_means = <<>> /\ prior_stds = <<>>

PostInit ==
  /\ lp_pc = "call" /\ theta \in ThetaChoices
  /\ lp = "none" /\ lp_terms = "none" /\ lnprob_ret = "none" /\ lnlike_calls = 0

PostOff ==
  /\ lp_pc = "off" /\ theta = <<>> /\ lp = "none" /\ lp_terms = "none"
  /\ lnprob_ret = "none" /\ lnlike_calls = 0

\* lp = lnprior(theta, prior_stds, prior_means)
LnprobPrior ==
  /\ lp_pc = "call"
  /\ lp' = lnprior(theta, prior_stds, prior_means)
  /\ lp_terms' = lnprior_terms(theta, prior_stds, prior_means)
  /\ prior_stds' = StdsAfterLnprior(prior_stds, prior_means)
  /\ lp_pc' = "prior"
  /\ UNCHANGED <<theta, lnprob_ret, lnlike_calls, datagrid, mol_cat, prior_means>>
  /\ UNCHANGED notPost

\* if not np.isfinite(lp): return -np.inf
LnprobReject ==
  /\ lp_pc = "prior" /\ ~isfinite(lp)
  /\ lnprob_ret' = "ninf"
  /\ lp_pc' = "returned"
  /\ UNCHANGED <<theta, lp, lp_terms, lnlike_calls>>
  /\ UNCHANGED <<argVars, notPost>>

\* return lp + lnlike(theta, datagrid, mol_cat)
LnprobLike ==
  /\ lp_pc = "prior" /\ isfinite(lp)
  /\ lnlike_calls' = lnlike_calls + 1
  /\ lnprob_ret' = FAdd(lp, lnlike(theta, datagrid))
  /\ datagrid' = GridAfterLnlike(datagrid)
  /\ mol_cat' = CatAfterPredict(mol_cat)
  /\ lp_pc' = "returned"
  /\ UNCHANGED <<theta, lp, lp_terms, prior_stds, prior_means>>
  /\ UNCHANGED notPost

----------------------------------------------------------------------------
(* The forward model: lnlike's line selection followed by make_model       *)

Components == 1..4

\* datagrid = np.array([freqs, ints, yerrs, covered_trans], dtype=object):
\* four arrays of one common length are stacked into a 2-axis object array,
\* otherwise the result is a 1-axis array holding the four arrays themselves
AssembleGrid(nchan, covered) ==
  [nchan |-> nchan, line_ids |-> covered, stacked |-> Len(covered) = nchan]

\* the dtype of datagrid[3]: covered_trans was made np.array(..., dtype=int),
\* a row of a stacked object array is an object array
LineIdsDtype(grid) == IF grid.stacked THEN "object" ELSE "int"

\* np.array(taus1)[line_ids] raises IndexError: an index array must be of
\* integer (or boolean) type, and every index must be in range
IndexRaises(grid) ==
  \/ LineIdsDtype(grid) = "object"
  \/ \E j \in 1..Len(grid.line_ids) : grid.line_ids[j] >= NCat

\* strictly increasing sequences of catalog line indices (covered_trans)
RECURSIVE SeqOfSet(_)
SeqOfSet(S) ==
  IF S = {} THEN <<>>
  ELSE LET k == CHOOSE x \in S : \A y \in S : x <= y
       IN  <<k>> \o SeqOfSet(S \ {k})
CoveredChoices == {SeqOfSet(S) : S \in SUBSET (0..(NCat - 1))}

\* read_file returns channels exactly when it accepted a line
GridFiles ==
  {g \in {AssembleGrid(n, cov) : n \in 0..MaxGrid, cov \in CoveredChoices} :
     (g.nchan = 0) <=> (g.line_ids = <<>>)}

\* optical depths on offer: zero for every line of every component, or
\* positive for one line of one component
NoTau == [c \in Components |-> [i \in 1..NCat |-> 0]]
TauChoices ==
  {NoTau} \cup
  {[NoTau EXCEPT ![c][i] = 1] : c \in Components, i \in 1..NCat}

\* one channel of curr_model: each component's accumulator is the sum of
\* tau*exp(...) over the selected lines whose mask holds the channel; the
\* component's intensity (J_T - J_Tbg)*(1 - exp(-acc))*dilution is zero
\* exactly when the accumulator is, J_T - J_Tbg and the dilution being
\* finite and positive
ModelAt(ch, sel, mask) ==
  IF \E c \in Components : \E j \in 1..Len(sel[c]) : ch \in mask[j] /\ sel[c][j] > 0
  THEN "pos" ELSE "zero"

make_model(nchan, sel, mask) == [ch \in 1..nchan |-> ModelAt(ch, sel, mask)]

FwdInit ==
  /\ fm_pc = "select"
  /\ grid_file \in GridFiles
  /\ taus \in TauChoices
  /\ sel_taus = <<>> /\ curr_model = <<>>

FwdOff ==
  /\ fm_pc = "off"
  /\ grid_file = [nchan |-> 0, line_ids |-> <<>>, stacked |-> FALSE]
  /\ taus = <<>> /\ sel_taus = <<>> /\ curr_model = <<>>

\* freqs1 = np.array(freqs1)[line_ids] ...: the index is refused
FwdSelectRaises ==
  /\ fm_pc = "select" /\ IndexRaises(grid_file)
  /\ fm_pc' = "raised"
  /\ UNCHANGED <<grid_file, taus, sel_taus, curr_model>>
  /\ UNCHANGED notFwd

\* taus1..taus4 = np.array(taus1..4)[line_ids]
FwdSelectOk ==
  /\ fm_pc = "select" /\ ~IndexRaises(grid_file)
  /\ sel_taus' = [c \in Components |->
                    [j \in 1..Len(grid_file.line_ids) |-> taus[c][grid_file.line_ids[j] + 1]]]
  /\ fm_pc' = "model"
  /\ UNCHANGED <<grid_file, taus, curr_model>>
  /\ UNCHANGED notFwd

\* curr_model = make_model(...); which channels each line's mask
\* np.abs(vel_grid-5.8) < dV*10 holds depends on theta and the frequencies
FwdMakeModel ==
  /\ fm_pc = "model"
  /\ \E mask \in [1..Len(grid_file.line_ids) -> SUBSET (1..grid_file.nchan)] :
       curr_model' = make_model(grid_file.nchan, sel_taus, mask)
  /\ fm_pc' = "done"
  /\ UNCHANGED <<grid_file, taus, sel_taus>>
  /\ UNCHANGED notFwd

----------------------------------------------------------------------------
(* init_setup and fit_multi_gaussian                                       *)

Walkers == 1..NWalkers

\* array shapes; an operation numpy refuses gives err
Shape(sh) == [err |-> FALSE, shape |-> sh]
ShapeError == [err |-> TRUE, shape |-> <<>>]
\* .T
Transpose(sh) == [k \in 1..Len(sh) |-> sh[Len(sh) + 1 - k]]
\* a reduction along axis=1 (np.percentile(..., axis=1), np.mean(..., axis=1))
ReduceAxis1(r) ==
  IF r.err \/ Len(r.shape) < 2 THEN ShapeError
  ELSE Shape([k \in 1..(Len(r.shape) - 1) |-> IF k = 1 THEN r.shape[1] ELSE r.shape[k + 1]])
\* the shape of prior_means (and of prior_stds, built from same-shaped terms)
PriorsShape(file_shape) == ReduceAxis1(ReduceAxis1(Shape(Transpose(file_shape))))

\* a check that looks at the number of axes only
PriorsShapeOk_NdimOnly(r) == ~r.err /\ Len(r.shape) = 1
\* prior_means.shape == (14,) and prior_stds.shape == (14,) and both ndim == 1
PriorsShapeOk(r) == ~r.err /\ r.shape = <<ndim>>

\* prior chain files on offer: none, a chain of this program, and malformed ones
PriorFiles ==
  {[exists |-> FALSE, shape |-> <<>>]} \cup
  {[exists |-> TRUE, shape |-> sh] :
     sh \in {<<NWalkers, 1, ndim>>, <<NWalkers, 2, ndim>>,
             <<NWalkers, 3, ndim>>, <<NWalkers, 3, ndim - 1>>, <<3, ndim>>,
             <<2, NWalkers, 3, ndim>>, <<ndim>>}}

\* observed grids on offer to a fit
FitGrids == {g \in Grids : Len(g) <= 1 /\ \A c \in 1..Len(g) : ~g[c].exact}

NoChainFile == [state |-> "missing", iters |-> <<>>]

IsPrefix(a, b) == Len(a) <= Len(b) /\ \A k \in 1..Len(a) : a[k] = b[k]

\* run_mcmc returns once pool.map has every walker's lnprob
SomeEvaluated(ev) == \E w \in Walkers : ev[w] = "done"
AllEvaluated(ev) == \A w \in Walkers : ev[w] = "done"

SamplingPcs == {"loop", "run_mcmc", "save", "writing", "readback"}

\* [:,-200:,:]
Last200 == 200

\* np.random.randn, by the sign of what it drew for a walker
Draws == {0 - 1, 1}

\* the shape of a[:, -200:, :].reshape(-1, ndim) for a 3-axis array
Last200Reshape(r) ==
  IF r.err \/ Len(r.shape) # 3 THEN ShapeError
  ELSE IF (r.shape[1] * Min(r.shape[2], Last200) * r.shape[3]) % ndim # 0 THEN ShapeError
  ELSE Shape(<<(r.shape[1] * Min(r.shape[2], Last200) * r.shape[3]) \div ndim, ndim>>)

\* sampler.chain is (walker, iteration, parameter)
ChainShape(iters) == <<NWalkers, Len(iters), ndim>>

\* the shape of `initial`: the literal vectors of lines 292 and 319, or the
\* median over axis=1 of the transposed tail of chain.npy
InitialShape(tmpl, rst, file) ==
  IF tmpl \/ rst THEN Shape(<<ndim>>)
  ELSE ReduceAxis1(
         TheOne({IF r.err THEN ShapeError ELSE Shape(Transpose(r.shape)) :
                   r \in {Last200Reshape(Shape(ChainShape(file.iters)))}}))

\* numpy broadcasting of two 1-axis shapes (initial + perturbation * randn)
Broadcast1(a, b) ==
  IF a.err \/ b.err \/ Len(a.shape) # 1 \/ Len(b.shape) # 1 THEN ShapeError
  ELSE IF a.shape = b.shape THEN a
  ELSE IF a.shape = <<1>> THEN b
  ELSE IF b.shape = <<1>> THEN a
  ELSE ShapeError

\* pos = [initial + perturbation * np.random.randn(ndim) for i in range(nwalkers)]
InitialPosShape(tmpl, rst, file) ==
  TheOne({IF v.err THEN <<>> ELSE <<NWalkers>> \o v.shape :
            v \in {Broadcast1(InitialShape(tmpl, rst, file),
                               Broadcast1(Shape(<<ndim>>), Shape(<<ndim>>)))}})

\* chain[-1]: the last entry along the first axis
LastSlice_FirstAxis(sh) == <<sh[2], sh[3]>>
\* sampler.chain[:, -1, :]
LastSlice(sh) == <<sh[1], sh[3]>>

\* len(pos) != nwalkers
WalkerCountDiffers(sh) == sh = <<>> \/ sh[1] # NWalkers

EnsInit == pos_shape = <<>> /\ pos_draws = <<>> /\ walker_msg = "none"

FitInit ==
  /\ cat_exists \in BOOLEAN /\ data_exists \in BOOLEAN
  /\ prior_file \in PriorFiles
  /\ datafile_exists = FALSE
  /\ chain_file = NoChainFile
  /\ fit_pc = "init_setup" /\ launch = 1
  /\ template_run \in BOOLEAN /\ restart \in BOOLEAN /\ nruns \in 1..MaxRuns
  /\ sampler = "none" /\ chain = <<>> /\ pos = "none" /\ it = 0
  /\ evals = [w \in Walkers |-> "idle"]
  /\ persisted_log = <<>>
  /\ EnsInit

FitOff ==
  /\ cat_exists = FALSE /\ data_exists = FALSE
  /\ prior_file = [exists |-> FALSE, shape |-> <<>>]
  /\ datafile_exists = FALSE /\ chain_file = NoChainFile
  /\ fit_pc = "off" /\ launch = 0
  /\ template_run = FALSE /\ restart = FALSE /\ nruns = 0
  /\ sampler = "none" /\ chain = <<>> /\ pos = "none" /\ it = 0
  /\ evals = <<>> /\ persisted_log = <<>>
  /\ EnsInit

Raise ==
  /\ fit_pc' = "error"
  /\ UNCHANGED <<launch, template_run, restart, nruns, sampler, chain, pos, it, evals,
                 persisted_log>>
  /\ UNCHANGED <<fileVars, argVars, ensVars, notFit>>

\* init_setup: no catalog file
InitSetupNoCatalog ==
  /\ fit_pc = "init_setup" /\ ~cat_exists
  /\ Raise

\* init_setup: read_file's np.load finds no spectrum
InitSetupNoData ==
  /\ fit_pc = "init_setup" /\ cat_exists /\ ~data_exists
  /\ Raise

\* init_setup: the grid is built and saved
InitSetupOk ==
  /\ fit_pc = "init_setup" /\ cat_exists /\ data_exists
  /\ datafile_exists' = TRUE
  /\ fit_pc' = "fit"
  /\ UNCHANGED <<cat_exists, data_exists, prior_file, chain_file>>
  /\ UNCHANGED <<launch, template_run, restart, nruns, sampler, chain, pos, it, evals,
                 persisted_log>>
  /\ UNCHANGED <<argVars, ensVars, notFit>>

\* fit_multi_gaussian up to the walkers: a file is missing or the priors are
\* malformed
FitLoadFails ==
  /\ fit_pc = "fit"
  /\ \/ ~datafile_exists
     \/ /\ datafile_exists /\ ~template_run
        /\ \/ ~prior_file.exists
           \/ prior_file.exists /\ ~PriorsShapeOk(PriorsShape(prior_file.shape))
           \/ /\ prior_file.exists /\ PriorsShapeOk(PriorsShape(prior_file.shape))
              /\ ~restart /\ chain_file.state # "ok"      \* np.load of chain.npy
  /\ Raise

\* fit_multi_gaussian up to the walkers: grid, catalog, priors and pos are set
FitLoadOk ==
  /\ fit_pc = "fit" /\ datafile_exists
  /\ \/ /\ template_run
        /\ prior_stds' = TemplateStds
        /\ prior_means' = TemplateInitial
     \/ /\ ~template_run /\ prior_file.exists
        /\ PriorsShapeOk(PriorsShape(prior_file.shape))
        /\ restart \/ chain_file.state = "ok"
        \* the percentiles run along the prior chain's iteration axis
        /\ prior_stds' = DerivedStds(PriorSamples(prior_file.shape[2]))
        /\ prior_means' = DerivedMeans(PriorSamples(prior_file.shape[2]))
  /\ datagrid' \in FitGrids
  /\ mol_cat' = "catalog"
  /\ pos' = "initial"
  /\ pos_shape' = InitialPosShape(template_run, restart, chain_file)
  /\ pos_draws' \in [Walkers -> Draws]
  /\ UNCHANGED walker_msg
  \* a launch that does not continue the chain on disk starts a new fit
  /\ persisted_log' = IF ~template_run /\ ~restart THEN persisted_log ELSE <<>>
  /\ fit_pc' = "walkers"
  /\ UNCHANGED <<launch, template_run, restart, nruns, sampler, chain, it, evals>>
  /\ UNCHANGED <<fileVars, notFit>>

\* if len(pos) != nwalkers: print a warning, else print success; then
\* with Pool() as pool: sampler = emcee.EnsembleSampler(...)
SamplerCreate ==
  /\ fit_pc = "walkers"
  /\ walker_msg' = IF WalkerCountDiffers(pos_shape) THEN "warning" ELSE "success"
  /\ sampler' = "made" /\ chain' = <<>> /\ it' = 0
  /\ fit_pc' = "loop"
  /\ UNCHANGED <<launch, template_run, restart, nruns, pos, evals, persisted_log>>
  /\ UNCHANGED <<pos_shape, pos_draws>>
  /\ UNCHANGED <<fileVars, argVars, notFit>>

\* sampler.run_mcmc(pos, 1) begins: every walker's lnprob goes to the pool
RunMcmcDispatch ==
  /\ fit_pc = "loop" /\ it < nruns
  /\ evals' = [w \in Walkers |-> "pending"]
  /\ fit_pc' = "run_mcmc"
  /\ UNCHANGED <<launch, template_run, restart, nruns, sampler, chain, pos, it,
                 persisted_log>>
  /\ UNCHANGED <<fileVars, argVars, ensVars, notFit>>

\* a pool worker runs lnprob for one walker; lnlike runs when the prior is finite
WalkerEval ==
  /\ fit_pc = "run_mcmc"
  /\ \E w \in Walkers :
       /\ evals[w] = "pending"
       /\ evals' = [evals EXCEPT ![w] = "done"]
  /\ prior_stds' = StdsAfterLnprior(prior_stds, prior_means)
  /\ \E finite \in BOOLEAN :
       /\ datagrid' = IF finite THEN GridAfterLnlike(datagrid) ELSE datagrid
       /\ mol_cat' = IF finite THEN CatAfterPredict(mol_cat) ELSE mol_cat
  /\ UNCHANGED prior_means
  /\ UNCHANGED <<fit_pc, launch, template_run, restart, nruns, sampler, chain, pos, it,
                 persisted_log>>
  /\ UNCHANGED <<fileVars, ensVars, notFit>>

\* run_mcmc returns: the step's state is appended to sampler.chain
RunMcmcReturn ==
  /\ fit_pc = "run_mcmc" /\ AllEvaluated(evals)
  /\ chain' = Append(chain, [launch |-> launch, step |-> Len(chain) + 1])
  /\ fit_pc' = "save"
  /\ UNCHANGED <<launch, template_run, restart, nruns, sampler, pos, it, evals,
                 persisted_log>>
  /\ UNCHANGED <<fileVars, argVars, ensVars, notFit>>

\* np.save opens chain.npy for writing, which empties it
SaveOpen ==
  /\ fit_pc = "save"
  /\ chain_file' = [state |-> "partial", iters |-> <<>>]
  /\ fit_pc' = "writing"
  /\ UNCHANGED <<cat_exists, data_exists, prior_file, datafile_exists>>
  /\ UNCHANGED <<launch, template_run, restart, nruns, sampler, chain, pos, it, evals,
                 persisted_log>>
  /\ UNCHANGED <<argVars, ensVars, notFit>>

\* np.save writes the whole of sampler.chain and closes the file
SaveWrite ==
  /\ fit_pc = "writing"
  /\ chain_file' = [state |-> "ok", iters |-> chain]
  /\ persisted_log' =
       persisted_log \o
         SelectSeq(chain, LAMBDA e : \A k \in 1..Len(persisted_log) : persisted_log[k] # e)
  /\ fit_pc' = "readback"
  /\ UNCHANGED <<cat_exists, data_exists, prior_file, datafile_exists>>
  /\ UNCHANGED <<launch, template_run, restart, nruns, sampler, chain, pos, it, evals>>
  /\ UNCHANGED <<argVars, ensVars, notFit>>

\* pos = sampler.chain[:, -1, :]; the loop's iteration is complete
ReadBack ==
  /\ fit_pc = "readback"
  /\ pos' = chain[Len(chain)]
  /\ pos_shape' = LastSlice(ChainShape(chain))
  /\ pos_draws' = <<>>
  /\ it' = it + 1
  /\ fit_pc' = "loop"
  /\ UNCHANGED <<launch, template_run, restart, nruns, sampler, chain, evals,
                 persisted_log>>
  /\ UNCHANGED walker_msg
  /\ UNCHANGED <<fileVars, argVars, notFit>>

\* the loop ends; return
FitReturn ==
  /\ fit_pc = "loop" /\ it = nruns
  /\ fit_pc' = "done"
  /\ UNCHANGED <<launch, template_run, restart, nruns, sampler, chain, pos, it, evals,
                 persisted_log>>
  /\ UNCHANGED <<fileVars, argVars, ensVars, notFit>>

\* the process is interrupted during the sampling phase: what it held in
\* memory is gone, the files stay as they are (`it` is kept as the record of
\* the iterations the interrupted launch had completed)
Interrupt ==
  /\ fit_pc \in SamplingPcs
  /\ fit_pc' = "killed"
  /\ chain' = <<>> /\ pos' = "none"
  /\ pos_shape' = <<>> /\ pos_draws' = <<>>
  /\ evals' = [w \in Walkers |-> "idle"]
  /\ UNCHANGED <<launch, template_run, restart, nruns, sampler, it, persisted_log>>
  /\ UNCHANGED walker_msg
  /\ UNCHANGED <<fileVars, argVars, notFit>>

\* the script is launched again against the same folders
Relaunch ==
  /\ fit_pc \in {"killed", "done", "error"} /\ launch < MaxLaunch
  /\ launch' = launch + 1
  /\ template_run' \in BOOLEAN /\ restart' \in BOOLEAN /\ nruns' \in 1..MaxRuns
  /\ sampler' = "none" /\ chain' = <<>> /\ pos' = "none" /\ it' = 0
  /\ pos_shape' = <<>> /\ pos_draws' = <<>> /\ walker_msg' = "none"
  /\ evals' = [w \in Walkers |-> "idle"]
  /\ fit_pc' = "init_setup"
  /\ UNCHANGED persisted_log
  /\ UNCHANGED <<fileVars, argVars, notFit>>

----------------------------------------------------------------------------
(* Specifications                                                          *)

\* calc_noise_std alone, on one window
InitNoise == NoiseInit /\ ReadOff /\ ArgsOff /\ PostOff /\ FitOff /\ FwdOff
NextNoise == Clip1 \/ Clip2 \/ Clip3
SpecNoise == InitNoise /\ [][NextNoise]_vars

\* read_file alone, on one spectrum and one line list
InitRead == ReadInit /\ NoiseOff /\ ArgsOff /\ PostOff /\ FitOff /\ FwdOff
NextRead == LineStep \/ FilterReturn
SpecRead == InitRead /\ [][NextRead]_vars

\* lnprob alone, on one parameter vector and one set of sampler arguments
InitPost == PostInit /\ ArgsInit /\ NoiseOff /\ ReadOff /\ FitOff /\ FwdOff
NextPost == LnprobPrior \/ LnprobReject \/ LnprobLike
SpecPost == InitPost /\ [][NextPost]_vars

\* launches of init_setup + fit_multi_gaussian against one set of folders
InitFit == FitInit /\ ArgsOff /\ PostOff /\ NoiseOff /\ ReadOff /\ FwdOff
NextFit ==
  \/ InitSetupNoCatalog \/ InitSetupNoData \/ InitSetupOk
  \/ FitLoadFails \/ FitLoadOk \/ SamplerCreate
  \/ RunMcmcDispatch \/ WalkerEval \/ RunMcmcReturn
  \/ SaveOpen \/ SaveWrite \/ ReadBack \/ FitReturn
  \/ Interrupt \/ Relaunch
SpecFit == InitFit /\ [][NextFit]_vars

\* the forward model alone, on one saved grid and one set of optical depths
InitFwd == FwdInit /\ ArgsOff /\ PostOff /\ NoiseOff /\ ReadOff /\ FitOff
NextFwd == FwdSelectRaises \/ FwdSelectOk \/ FwdMakeModel
SpecFwd == InitFwd /\ [][NextFwd]_vars

----------------------------------------------------------------------------
(* C10: calc_noise_std does exactly three clip-and-recompute cycles; in    *)
(* each cycle every channel whose deviation from the current mean exceeds  *)
(* threshold*std is masked together with every channel of the window       *)
(* within 10 positions of it on either side, wherever the outlier lies in  *)
(* the window; the mean and std are computed over unmasked channels only.  *)
C10_CycleDone == ns_pc \in {"clip1", "clip2", "clip3"}

C10_MasksNeighbourhood ==
  C10_CycleDone =>
    /\ \A c \in chans : \A j \in 0..(Len(dummy_ints) - 1) :
         Abs(j - c) <= ClipHalfWidth => noise[j + 1]
    /\ noise_stat = NanStat(dummy_ints, noise)

\* the same, restricted to the outlier itself: a selected channel is masked
C10_OutlierItselfMasked ==
  C10_CycleDone => \A c \in chans : noise[c + 1]

----------------------------------------------------------------------------
(* The lines of a finished read_file call, recomputed from its inputs      *)
LineIds == 0..(Len(restfreqs) - 1)
LineLocs(i) == Locs(restfreqs[i + 1])
LineWin(i) == Take(intensity, LineLocs(i))
\* significant, with at least one channel in its window
LineHasWindow(i) == Significant(int_sim, i) /\ LineLocs(i) # {}
\* the peak in the window exceeds 6 times the local noise std
LinePeakExceeds(i) ==
  \E win \in {LineWin(i)} : PeakAbove(SeqMax(win), calc_noise_std(win))
Covered == {covered_trans[j] : j \in 1..Len(covered_trans)}
\* channel k of the spectrum appears in the returned sequences
InOutput(k) == \E j \in 1..Len(relevant_freqs) : relevant_freqs[j] = freqs[k]

YerrPositive(y) == ~y.nan /\ y.num > 0

(* C8: the three sequences read_file returns have equal length and every   *)
(* returned uncertainty is strictly positive (never zero, never NaN).      *)
C8_EqualLengthPositiveYerrs ==
  rd_pc = "done" =>
    /\ Len(relevant_freqs) = Len(relevant_intensity)
    /\ Len(relevant_freqs) = Len(relevant_yerrs)
    /\ \A j \in 1..Len(relevant_yerrs) : YerrPositive(relevant_yerrs[j])

\* the part of C8 the code does keep: the lengths agree
C8_EqualLength ==
  rd_pc = "done" =>
    /\ Len(relevant_freqs) = Len(relevant_intensity)
    /\ Len(relevant_freqs) = Len(relevant_yerrs)

(* C9 as stated: with block_interlopers=True a significant line with a     *)
(* non-empty window whose peak exceeds 6*noise_std is not in covered_trans *)
(* and no channel of its window is in the output; with                     *)
(* block_interlopers=False every significant line with a non-empty window  *)
(* is in covered_trans and all its window's channels are in the output.    *)
C9_WindowDiscardedEntirely ==
  rd_pc = "done" =>
    \A i \in LineIds : LineHasWindow(i) =>
      /\ (block_interlopers /\ LinePeakExceeds(i)) =>
            /\ i \notin Covered
            /\ \A k \in LineLocs(i) : ~InOutput(k)
      /\ ~block_interlopers =>
            /\ i \in Covered
            /\ \A k \in LineLocs(i) : InOutput(k)

(* C9 amended: a rejected line is not in covered_trans and contributes no  *)
(* channel: a channel of its window is in the output only when it also     *)
(* lies in the window of a line that is in covered_trans.  The             *)
(* block_interlopers=False half is as stated.                              *)
C9_RejectedLineContributesNothing ==
  rd_pc = "done" =>
    \A i \in LineIds : LineHasWindow(i) =>
      /\ (block_interlopers /\ LinePeakExceeds(i)) =>
            /\ i \notin Covered
            /\ \A k \in LineLocs(i) :
                 InOutput(k) => \E j \in Covered : k \in LineLocs(j)
      /\ ~block_interlopers =>
            /\ i \in Covered
            /\ \A k \in LineLocs(i) : InOutput(k)

\* a finished call that rejected an interloper while another line was kept
C9_Witness ==
  /\ rd_pc = "done" /\ block_interlopers
  /\ \E i \in LineIds : LineHasWindow(i) /\ LinePeakExceeds(i)
  /\ Len(covered_trans) > 0

----------------------------------------------------------------------------
(* C1: for every theta that violates a bound or ordering constraint of     *)
(* is_within_bounds, lnprior returns -infinity and lnprob returns          *)
(* -infinity, and lnprob never enters lnlike.                              *)
C1_OutOfBoundsRejectedWithoutLnlike ==
  ~is_within_bounds(theta) =>
    /\ lnlike_calls = 0
    /\ lp_pc \in {"prior", "returned"} => lp = "ninf"
    /\ lp_pc = "returned" => lnprob_ret = "ninf"

\* a finished call on a vector whose only fault is the velocity ordering
C1_Witness ==
  /\ lp_pc = "returned" /\ ~is_within_bounds(theta)
  /\ \A i \in SizeIdx \cup NcolIdx : theta[i] = TemplateInitial[i]
  /\ lnprob_ret = "ninf"

(* C7: lnprob returns -infinity or a finite number, never NaN or           *)
(* +infinity, also on grids whose uncertainties are zero or NaN.           *)
C7_LnprobNeverNaN ==
  lp_pc = "returned" => lnprob_ret \in {"ninf", "fin"}

----------------------------------------------------------------------------
(* Claims about the fit driver                                             *)

\* the first n entries of this launch's chain
OwnEntries(n) == [k \in 1..n |-> [launch |-> launch, step |-> k]]

(* C2: after the k-th loop iteration completes, chain.npy is identical to  *)
(* the in-memory chain and holds exactly the k iterations of this run; so  *)
(* an interruption at any point of the sampling phase finds a persisted    *)
(* chain that misses at most the iteration in progress.                    *)
C2_CrashLosesAtMostOneIteration ==
  /\ (fit_pc \in {"loop", "done"} /\ it >= 1) =>
        /\ chain_file.state = "ok"
        /\ chain_file.iters = chain
        /\ chain = OwnEntries(it)
  /\ (fit_pc = "killed" /\ it >= 1) =>
        /\ chain_file.state = "ok"
        /\ IsPrefix(OwnEntries(it), chain_file.iters)
        /\ Len(chain_file.iters) <= it + 1

\* the half of C2 that the code keeps: the state at each iteration boundary
C2_BoundaryStateHolds ==
  (fit_pc \in {"loop", "done"} /\ it >= 1) =>
    /\ chain_file.state = "ok"
    /\ chain_file.iters = chain
    /\ chain = OwnEntries(it)

(* C3: no walker's lnprob evaluation of step i+1 is dispatched until every *)
(* walker's evaluation of step i has completed, step i has been appended   *)
(* to the chain and persisted, and the next ensemble has been read back    *)
(* from the chain's last slice; the chain is in strict step order.         *)
C3_StepsStrictlyOrdered ==
  /\ \A k \in 1..Len(chain) : chain[k].step = k
  \* evaluations are in flight only inside run_mcmc ...
  /\ (\E w \in DOMAIN evals : evals[w] = "pending") => fit_pc = "run_mcmc"
  \* ... and run_mcmc for step it+1 runs on a chain of `it` steps that is
  \* persisted and was read back
  /\ fit_pc = "run_mcmc" =>
        /\ Len(chain) = it
        /\ it >= 1 => /\ chain_file = [state |-> "ok", iters |-> chain]
                       /\ pos = chain[it]
  \* a step is appended, saved and read back only with every walker done
  /\ fit_pc \in {"save", "writing", "readback"} =>
        /\ \A w \in Walkers : evals[w] = "done"
        /\ Len(chain) = it + 1

\* a second step under way with one walker done and another still pending
C3_Witness ==
  /\ fit_pc = "run_mcmc" /\ it = 1
  /\ \E w \in Walkers : evals[w] = "done"
  /\ \E w \in Walkers : evals[w] = "pending"

(* C4: the persisted chain is append-only over the whole life of a fit,    *)
(* a fit that is interrupted and resumed (restart=False) included: every   *)
(* entry once written to chain.npy is in every later persisted chain.      *)
C4_PersistedChainAppendOnly ==
  chain_file.state = "ok" => IsPrefix(persisted_log, chain_file.iters)

(* C5: no lnprob evaluation modifies the observed grid, the prior means,   *)
(* the prior standard deviations or the catalog: during the sampling run   *)
(* they stay as they were when the sampler was constructed.                *)
C5_SamplerArgsReadOnly ==
  [][(fit_pc \in SamplingPcs) => (argVars' = argVars)]_vars

\* a step whose walkers have all been evaluated
C5_Witness ==
  /\ fit_pc = "readback" /\ (\A w \in Walkers : evals[w] = "done") /\ it = 1
  /\ Len(datagrid) = 1

(* C6: the sampling phase never starts when the catalog file, the spectrum *)
(* file or (non-template run) the prior chain file is missing, or when the *)
(* priors derived from the prior chain are not 1-dimensional vectors of    *)
(* exactly 14 elements: the launch ends in an error before the sampler is  *)
(* constructed.                                                            *)
C6_BadPriors ==
  /\ ~template_run
  /\ \/ ~prior_file.exists
     \/ PriorsShape(prior_file.shape).err
     \/ PriorsShape(prior_file.shape).shape # <<14>>

C6_BadInputs == ~cat_exists \/ ~data_exists \/ C6_BadPriors

C6_NoSamplingOnBadInputs ==
  (fit_pc # "off" /\ C6_BadInputs) =>
    /\ fit_pc \in {"init_setup", "fit", "error"}
    /\ sampler = "none" /\ chain = <<>> /\ it = 0
    /\ chain_file.state = "missing" \/ launch > 1

\* a launch stopped by a prior chain of 13 parameters, all files present
C6_Witness ==
  /\ fit_pc = "error" /\ cat_exists /\ data_exists /\ datafile_exists
  /\ ~template_run /\ prior_file.exists
  /\ ~PriorsShape(prior_file.shape).err
  /\ PriorsShape(prior_file.shape).shape = <<13>>

----------------------------------------------------------------------------
(* C11: at the start of every sampler step the walker ensemble holds       *)
(* exactly nwalkers vectors of 14 parameters; for the first step it is the *)
(* initial vector plus one independent perturbation per walker, for every  *)
(* later step it is the chain's latest iteration slice; and the            *)
(* walker-count check never stops the run: after either message the        *)
(* sampler is constructed and sampling starts.                             *)
C11_EnsembleAtStepStart ==
  fit_pc = "run_mcmc" =>
    /\ pos_shape = <<NWalkers, ndim>>
    /\ it = 0 => /\ pos = "initial"
                 /\ DOMAIN pos_draws = Walkers
                 /\ \A w \in Walkers : pos_draws[w] \in Draws
    /\ it >= 1 => /\ pos = chain[Len(chain)]
                  /\ pos_draws = <<>>

C11_CheckNeverStops ==
  fit_pc = "walkers" =>
    /\ fit_pc' = "loop" /\ sampler' = "made"
    /\ walker_msg' \in {"warning", "success"}

C11_WalkerEnsemble ==
  /\ []C11_EnsembleAtStepStart
  /\ [][C11_CheckNeverStops]_vars

\* a later step starting from the chain's last slice, in a launch that took
\* its initial vector from the chain on disk
C11_Witness ==
  /\ fit_pc = "run_mcmc" /\ it >= 1 /\ pos = chain[Len(chain)]
  /\ ~template_run /\ ~restart /\ launch > 1
  /\ walker_msg = "success"

\* a first step whose walkers drew different perturbations
C11_WitnessFirstStep ==
  /\ fit_pc = "run_mcmc" /\ it = 0
  /\ \E v, w \in Walkers : pos_draws[v] # pos_draws[w]

----------------------------------------------------------------------------
(* C12: covered_trans returned by read_file contains index i exactly when  *)
(* int_sim[i] is strictly greater than 5% of the maximum simulated         *)
(* intensity, at least one channel lies in line i's velocity window, and   *)
(* the window was not rejected as an interloper; the indices are in        *)
(* strictly increasing order, without duplicates.                          *)
C12_AboveFivePercent(i) == ThreshDen * int_sim[i + 1] > SeqMax(int_sim)

C12_CoveredExactly ==
  rd_pc = "done" =>
    /\ \A j \in 1..Len(covered_trans) : covered_trans[j] \in LineIds
    /\ \A i \in LineIds :
         i \in Covered <=>
           /\ C12_AboveFivePercent(i)
           /\ LineLocs(i) # {}
           /\ ~(block_interlopers /\ LinePeakExceeds(i))
    /\ \A j, k \in 1..Len(covered_trans) :
         j < k => covered_trans[j] < covered_trans[k]

\* a finished call that kept one line and left out another that has data in
\* its window but a simulated intensity of exactly 5% of the peak
C12_Witness ==
  /\ rd_pc = "done" /\ Len(covered_trans) = 1
  /\ \E i \in LineIds :
       /\ i \notin Covered /\ LineLocs(i) # {}
       /\ ThreshDen * int_sim[i + 1] = SeqMax(int_sim)

----------------------------------------------------------------------------
\* the selected set of lines is empty, or every selected line has optical
\* depth zero in all four components
C13_NothingToModel ==
  \/ grid_file.line_ids = <<>>
  \/ \A j \in 1..Len(grid_file.line_ids) : \A c \in Components :
       grid_file.line_ids[j] < NCat => taus[c][grid_file.line_ids[j] + 1] = 0

(* C13: when the set of selected lines is empty, or every selected line    *)
(* has optical depth zero in all four components, the line selection       *)
(* followed by make_model completes without raising and the composite      *)
(* model is zero at every channel of the observed grid; the result always  *)
(* has the length of the observed grid.                                    *)
C13_ZeroModelNeverRaises ==
  /\ (fm_pc \in {"model", "done", "raised"} /\ C13_NothingToModel) =>
        /\ fm_pc # "raised"
        /\ fm_pc = "done" => \A ch \in 1..Len(curr_model) : curr_model[ch] = "zero"
  /\ fm_pc = "done" => Len(curr_model) = grid_file.nchan

\* what the code does keep: a selection that the index accepts gives a model
\* of the grid's length, zero everywhere when there is nothing to model
C13_ZeroModelWhenSelected ==
  fm_pc = "done" =>
    /\ Len(curr_model) = grid_file.nchan
    /\ C13_NothingToModel => \A ch \in 1..Len(curr_model) : curr_model[ch] = "zero"

\* the grid of a spectrum in which no line was accepted
C13_EmptySelectionRaises ==
  /\ fm_pc = "raised" /\ grid_file.line_ids = <<>> /\ grid_file.nchan = 0

----------------------------------------------------------------------------
\* the domain as the claim words it
C14_InDomain(th) ==
  /\ \A i \in 1..4 : 0 < th[i] /\ th[i] < SizeMax
  /\ \A i \in 5..8 : 0 < th[i] /\ th[i] < NcolMax
  /\ \A i \in 10..12 : th[i] + VlsrGapMin < th[i + 1] /\ th[i + 1] < th[i] + VlsrGapMax
  /\ th[14] < dVMax
  /\ th[9] > TexMin

(* C14: is_within_bounds(theta) is true exactly when every source size is  *)
(* strictly between 0 and 200, every column density strictly between 0 and *)
(* 1e16, each vlsr_{i+1} strictly between vlsr_i + 0.05 and vlsr_i + 0.3,  *)
(* dV < 0.3 and Tex > 2.7: lnprior rejects (returns -infinity for) exactly *)
(* the vectors outside this domain.                                        *)
C14_BoundsExactlyTheDomain ==
  /\ is_within_bounds(theta) <=> C14_InDomain(theta)
  /\ lp_pc \in {"prior", "returned"} => ((lp # "ninf") <=> C14_InDomain(theta))

\* an accepted vector whose second velocity is just inside the lower gap
C14_Witness ==
  /\ lp_pc = "returned" /\ lp # "ninf"
  /\ theta[11] = theta[10] + VlsrGapMin + 1
  /\ C14_InDomain(theta)

\* a rejected vector whose fourth velocity is exactly 0.3 above the third
C14_WitnessRejected ==
  /\ lp_pc = "returned" /\ lp = "ninf"
  /\ theta[13] = theta[12] + VlsrGapMax
  /\ \A i \in 1..12 : theta[i] = TemplateInitial[i]

----------------------------------------------------------------------------
(* C15: for every parameter vector accepted by is_within_bounds, lnprior   *)
(* returns a finite value, with the hardcoded template priors and with     *)
(* priors derived from the percentiles of a previous chain alike: every    *)
(* standard deviation lnprior divides by is strictly positive.             *)
C15_LnpriorFiniteInBounds ==
  /\ (lp_pc \in {"prior", "returned"} /\ is_within_bounds(theta)) => lp = "fin"
  /\ lp_pc \in {"prior", "returned"} =>
        /\ \A i \in SizeIdx \cup {TexIdx} : prior_stds[i] > 0
        /\ prior_means[dVIdx] * VlsrStdTenths > 0
        /\ prior_means[dVIdx] * dVStdTenths > 0

\* the half that holds: with the template priors lnprior is finite in bounds
C15_TemplatePriorsFinite ==
  (/\ lp_pc \in {"prior", "returned"} /\ is_within_bounds(theta)
   /\ prior_stds = TemplateStds /\ prior_means = TemplateInitial) => lp = "fin"

\* lnprior is NaN on the initial vector with priors of zero spread
C15_NaNOnDerivedPriors ==
  /\ lp_pc = "returned" /\ theta = TemplateInitial
  /\ prior_stds = ZeroStds /\ lp = "nan"

----------------------------------------------------------------------------
\* a second call's arguments: column densities v, Ncol prior means mv, and
\* sv for the Ncol, velocity and line-width prior deviations
C16_NcolAlt == {1, 5000, NcolMax - 1}
C16_StdAlt == {0, 1, 999}
C16_OtherTheta(v) == [i \in 1..ndim |-> IF i \in 5..8 THEN v ELSE theta[i]]
C16_OtherMeans(mv) == [i \in 1..ndim |-> IF i \in 5..8 THEN mv ELSE prior_means[i]]
C16_OtherStds(sv) ==
  [i \in 1..ndim |-> IF i \in 5..8 \/ i \in 10..14 THEN sv ELSE prior_stds[i]]

(* C16: lnprior does not depend on the column densities nor on the         *)
(* supplied deviations of the velocities and the line width: a call within *)
(* bounds and any other call within bounds that differs from it only in    *)
(* Ncol1..4, in the Ncol prior means and deviations and in the deviations  *)
(* at indices 9-13 return the same value; the deviations used for          *)
(* vlsr1..4 are 0.8 times, and the one for dV 0.3 times, the dV prior mean.*)
C16_IndependentOfNcolAndVelStds ==
  (lp_pc \in {"prior", "returned"} /\ is_within_bounds(theta)) =>
    /\ \A v \in C16_NcolAlt, mv \in C16_NcolAlt, sv \in C16_StdAlt :
         is_within_bounds(C16_OtherTheta(v)) =>
           lnprior_terms(C16_OtherTheta(v), C16_OtherStds(sv), C16_OtherMeans(mv))
             = lp_terms
    /\ \A i \in 6..9 : 10 * lp_terms[i].s10 = 8 * (10 * prior_means[14])
    /\ 10 * lp_terms[10].s10 = 3 * (10 * prior_means[14])

\* a finished call within bounds whose column densities are not the
\* template's, under the template priors
C16_Witness ==
  /\ lp_pc = "returned" /\ is_within_bounds(theta) /\ lp = "fin"
  /\ theta[5] = 1 /\ prior_stds = TemplateStds
  /\ lp_terms[6].x = theta[10]

====
